---- MODULE Spec2Model ----
(***************************************************************************)
(* Model of src/structures/Utils.ts (erela.js): TrackUtils (capability     *)
(* tags, field whitelist, build / buildUnresolved / resolve,               *)
(* getClosestTrack), Utils.formatTime / Utils.parseTime and the Structure  *)
(* registry (extend / get).                                                *)
(*                                                                         *)
(* JavaScript strings are modelled as sequences of one-character strings,  *)
(* so that concatenation, slicing, searching and the regular expressions   *)
(* of the source are computed and not assumed.                             *)
(*                                                                         *)
(* A millisecond count n is the record [s |-> n \div 1000, r |-> n % 1000]:*)
(* the unit weights of the source (up to 31557600000) exceed the 32-bit    *)
(* integers of the model checker, and every one of them is a multiple of   *)
(* 1000, so the weights are kept in seconds and the arithmetic is exact.   *)
(***************************************************************************)
EXTENDS Integers, Sequences, FiniteSets, TLC

\* ------------------------------------------------------------------------
\* Strings
\* ------------------------------------------------------------------------

Digits == <<"0", "1", "2", "3", "4", "5", "6", "7", "8", "9">>

IsDigit(c) == \E i \in 1..10 : Digits[i] = c

DigitVal(c) == (CHOOSE i \in 1..10 : Digits[i] = c) - 1

\* `${v}` for a non-negative integer v
RECURSIVE NumToStr(_)
NumToStr(n) ==
  IF n < 10 THEN <<Digits[n + 1]>>
  ELSE NumToStr(n \div 10) \o <<Digits[(n % 10) + 1]>>

\* String.prototype.toLowerCase on one character (the letters the model uses)
LowerChar(c) ==
  CASE c = "A" -> "a"
    [] c = "N" -> "n"
    [] c = "O" -> "o"
    [] c = "S" -> "s"
    [] c = "T" -> "t"
    [] c = "X" -> "x"
    [] c = "Y" -> "y"
    [] OTHER -> c

toLowerCase(str) == [i \in 1..Len(str) |-> LowerChar(str[i])]

\* str.slice(from) / str.slice(from, to) with 0-based indices, as in JavaScript
SliceFrom(str, from) == SubSeq(str, from + 1, Len(str))
Slice(str, from, to) == SubSeq(str, from + 1, to)

includesChar(str, c) == \E i \in 1..Len(str) : str[i] = c

endsWith(str, suffix) ==
  /\ Len(suffix) <= Len(str)
  /\ SubSeq(str, Len(str) - Len(suffix) + 1, Len(str)) = suffix

includes(str, sub) ==
  \E i \in 1..(Len(str) - Len(sub) + 1) : SubSeq(str, i, i + Len(sub) - 1) = sub

\* 0-based index of the last occurrence of the character c (c occurs in str)
lastIndexOf(str, c) ==
  (CHOOSE i \in 1..Len(str) :
     /\ str[i] = c
     /\ \A j \in (i + 1)..Len(str) : str[j] # c) - 1

\* Array.prototype.join
RECURSIVE join(_, _)
join(parts, sep) ==
  IF Len(parts) = 0 THEN <<>>
  ELSE IF Len(parts) = 1 THEN parts[1]
  ELSE parts[1] \o sep \o join(Tail(parts), sep)

\* str.split(c) for a one-character separator
RECURSIVE splitChar(_, _)
splitChar(str, c) ==
  IF ~includesChar(str, c) THEN <<str>>
  ELSE LET i == CHOOSE k \in 1..Len(str) :
                  str[k] = c /\ \A j \in 1..(k - 1) : str[j] # c
       IN <<SubSeq(str, 1, i - 1)>> \o splitChar(SubSeq(str, i + 1, Len(str)), c)

\* str.split(/\s+/).join(""): every white-space character removed
RECURSIVE stripSpaces(_)
stripSpaces(str) ==
  IF Len(str) = 0 THEN <<>>
  ELSE (IF Head(str) = " " THEN <<>> ELSE <<Head(str)>>) \o stripSpaces(Tail(str))

Reverse(seq) == [i \in 1..Len(seq) |-> seq[Len(seq) + 1 - i]]

\* ------------------------------------------------------------------------
\* Utils.formatTime / Utils.parseTime
\* ------------------------------------------------------------------------

W_second == <<"s", "e", "c", "o", "n", "d">>
W_minute == <<"m", "i", "n", "u", "t", "e">>
W_hour   == <<"h", "o", "u", "r">>
W_day    == <<"d", "a", "y">>
W_week   == <<"w", "e", "e", "k">>
W_month  == <<"m", "o", "n", "t", "h">>
W_year   == <<"y", "e", "a", "r">>
W_undefined == <<"u", "n", "d", "e", "f", "i", "n", "e", "d">>

Plural(w) == w \o <<"s">>

template == <<W_second, W_minute, W_hour, W_day, W_week, W_month, W_year>>

\* unit weights of the source, in seconds (source value / 1000)
YearSec   == 31557600
MonthSec  == 2628000
WeekSec   == 604800
DaySec    == 86400
HourSec   == 3600
MinuteSec == 60

Ms(seconds, rest) == [s |-> seconds, r |-> rest]

Times0 ==
  [years |-> 0, months |-> 0, weeks |-> 0, days |-> 0,
   hours |-> 0, minutes |-> 0, seconds |-> 0]

\* Math.round(milliseconds / 1000) for 0 < milliseconds < 60000
RoundSeconds(ms) == ms.s + (IF ms.r >= 500 THEN 1 ELSE 0)

\* the while loop of formatTime
RECURSIVE Decompose(_, _)
Decompose(ms, times) ==
  IF ~(ms.s > 0 \/ ms.r > 0) THEN times
  ELSE IF ms.s >= YearSec THEN
    Decompose([ms EXCEPT !.s = @ - YearSec], [times EXCEPT !.years = @ + 1])
  ELSE IF ms.s >= MonthSec THEN
    Decompose([ms EXCEPT !.s = @ - MonthSec], [times EXCEPT !.months = @ + 1])
  ELSE IF ms.s >= WeekSec THEN
    Decompose([ms EXCEPT !.s = @ - WeekSec], [times EXCEPT !.weeks = @ + 7])
  ELSE IF ms.s >= DaySec THEN
    Decompose([ms EXCEPT !.s = @ - DaySec], [times EXCEPT !.days = @ + 1])
  ELSE IF ms.s >= HourSec THEN
    Decompose([ms EXCEPT !.s = @ - HourSec], [times EXCEPT !.hours = @ + 1])
  ELSE IF ms.s >= MinuteSec THEN
    Decompose([ms EXCEPT !.s = @ - MinuteSec], [times EXCEPT !.minutes = @ + 1])
  ELSE [times EXCEPT !.seconds = RoundSeconds(ms)]

\* Object.entries(times): the keys in insertion order with their values
Entries(times) ==
  << <<Plural(W_year), times.years>>,
     <<Plural(W_month), times.months>>,
     <<Plural(W_week), times.weeks>>,
     <<Plural(W_day), times.days>>,
     <<Plural(W_hour), times.hours>>,
     <<Plural(W_minute), times.minutes>>,
     <<Plural(W_second), times.seconds>> >>

\* the for loop of formatTime: finalTime after the entries from index i on,
\* `first` as in the source
RECURSIVE Render(_, _, _, _)
Render(entries, i, minimal, first) ==
  IF i > Len(entries) THEN <<>>
  ELSE
    LET k == entries[i][1]
        v == entries[i][2]
    IN IF minimal THEN
         IF v = 0 /\ ~first THEN Render(entries, i + 1, minimal, first)
         ELSE <<(IF v < 10 THEN <<"0">> \o NumToStr(v) ELSE NumToStr(v))>>
                \o Render(entries, i + 1, minimal, TRUE)
       ELSE
         (IF v > 0
            THEN <<NumToStr(v) \o <<" ">> \o
                    (IF v > 1 THEN k ELSE Slice(k, 0, Len(k) - 1))>>
            ELSE <<>>)
         \o Render(entries, i + 1, minimal, first)

\* lines 282-291: the unshift of "00", the join and the " and " of the last comma
JoinTime(finalTime0, minimal) ==
  LET finalTime == IF minimal /\ Len(finalTime0) = 1
                     THEN <<<<"0", "0">>>> \o finalTime0
                     ELSE finalTime0
      time == join(finalTime, IF minimal THEN <<":">> ELSE <<",", " ">>)
  IN IF includesChar(time, ",")
       THEN LET pos == lastIndexOf(time, ",")
            IN Slice(time, 0, pos) \o <<" ", "a", "n", "d", " ">> \o SliceFrom(time, pos + 1)
       ELSE time

formatTime(ms, minimal) ==
  IF ms.s = 0 /\ ms.r = 0
    THEN (IF minimal THEN <<"0", "0", ":", "0", "0">> ELSE <<"N", "/", "A">>)
    ELSE JoinTime(Render(Entries(Decompose(ms, Times0)), 1, minimal, FALSE), minimal)

\* --- parseTime ---

\* first index >= i of str that holds no digit (Len(str) + 1 when there is none)
RECURSIVE DigitsEnd(_, _)
DigitsEnd(str, i) ==
  IF i <= Len(str) /\ IsDigit(str[i]) THEN DigitsEnd(str, i + 1) ELSE i

RECURSIVE DotsEnd(_, _)
DotsEnd(str, i) ==
  IF i <= Len(str) /\ str[i] = "." THEN DotsEnd(str, i + 1) ELSE i

RECURSIVE NonDigitsEnd(_, _)
NonDigitsEnd(str, i) ==
  IF i <= Len(str) /\ ~IsDigit(str[i]) THEN NonDigitsEnd(str, i + 1) ELSE i

\* /\d+\.*\d*\D+/ anchored at index i: the index after the match, 0 when there
\* is none. Greedy with backtracking: \.* and then \d* give characters back
\* until a non-digit follows.
MatchEnd(str, i) ==
  LET a == DigitsEnd(str, i)
      ends == {m \in a..(Len(str) + 1) :
                 \E k \in a..DotsEnd(str, a) :
                   /\ m \in k..DigitsEnd(str, k)
                   /\ m <= Len(str)
                   /\ ~IsDigit(str[m])}
      dotsKept == CHOOSE k \in a..DotsEnd(str, a) :
                    /\ \E m \in ends : m \in k..DigitsEnd(str, k)
                    /\ \A k2 \in (k + 1)..DotsEnd(str, a) :
                         ~\E m \in ends : m \in k2..DigitsEnd(str, k2)
      m0 == CHOOSE m \in ends :
              /\ m \in dotsKept..DigitsEnd(str, dotsKept)
              /\ \A m2 \in ends : m2 \in dotsKept..DigitsEnd(str, dotsKept) => m2 <= m
  IN IF a = i \/ ends = {} THEN 0 ELSE NonDigitsEnd(str, m0)

\* regex.exec in a loop: the successive matches of the global regex from pos on
RECURSIVE Tokens(_, _)
Tokens(str, pos) ==
  LET starts == {i \in pos..Len(str) : MatchEnd(str, i) # 0}
  IN IF starts = {} THEN <<>>
     ELSE LET i == CHOOSE x \in starts : \A y \in starts : x <= y
              e == MatchEnd(str, i)
          IN <<SubSeq(str, i, e - 1)>> \o Tokens(str, e)

\* parseInt(str, 10) of a string that starts with a digit
RECURSIVE parseInt(_)
parseInt(str) ==
  LET d == SubSeq(str, 1, DigitsEnd(str, 1) - 1)
  IN IF Len(d) = 0 THEN 0
     ELSE 10 * parseInt(SubSeq(d, 1, Len(d) - 1)) + DigitVal(d[Len(d)])

\* (local.match(/\D+/) as string[])[0].length: the first run of non-digits
FirstNonDigitRunLen(local) ==
  LET i == CHOOSE k \in 1..Len(local) :
             ~IsDigit(local[k]) /\ \A j \in 1..(k - 1) : IsDigit(local[j])
  IN NonDigitsEnd(local, i) - i

IsUnit(local, word, letter) ==
  \/ endsWith(local, Plural(word))
  \/ endsWith(local, word)
  \/ (endsWith(local, <<letter>>) /\ FirstNonDigitRunLen(local) = 1)

\* the weight, in seconds, the if / else-if chain of parseTime gives a token
TokenSeconds(token) ==
  LET local == toLowerCase(token)
      n == parseInt(local)
  IN IF IsUnit(local, W_second, "s") THEN n
     ELSE IF IsUnit(local, W_minute, "m") THEN n * MinuteSec
     ELSE IF IsUnit(local, W_hour, "h") THEN n * HourSec
     ELSE IF IsUnit(local, W_day, "d") THEN n * DaySec
     ELSE IF IsUnit(local, W_week, "w") THEN n * WeekSec
     ELSE IF endsWith(local, Plural(W_month)) \/ endsWith(local, W_month) THEN n * MonthSec
     ELSE IF IsUnit(local, W_year, "y") THEN n * YearSec
     ELSE 0

RECURSIVE SumTokens(_)
SumTokens(tokens) ==
  IF Len(tokens) = 0 THEN 0 ELSE TokenSeconds(Head(tokens)) + SumTokens(Tail(tokens))

\* lines 300-302: the three rewrites of the input
Normalise(time0) ==
  LET groups == Reverse(splitChar(time0, ":"))
      t1 == IF includesChar(time0, ":")
              THEN join([i \in 1..Len(groups) |->
                           groups[i] \o (IF i <= Len(template) THEN template[i]
                                         ELSE W_undefined)], <<>>)
              ELSE time0
      t2 == IF includesChar(t1, " ") THEN stripSpaces(t1) ELSE t1
  IN IF Len(t2) > 0 /\ \A i \in 1..Len(t2) : IsDigit(t2[i])
       THEN t2 \o Plural(W_second)
       ELSE t2

\* the result: <<>> is null, <<ms>> is the number of milliseconds
parseTime(time) ==
  LET duration == SumTokens(Tokens(Normalise(time), 1))
  IN IF duration = 0 THEN <<>> ELSE <<Ms(duration, 0)>>

\* ------------------------------------------------------------------------
\* TrackUtils: objects, capability tags, whitelist, build, buildUnresolved
\* ------------------------------------------------------------------------

\* An object is [props, syms]: props maps its own string-keyed properties
\* (all enumerable) to their values, syms maps its own symbol-keyed properties
\* to their descriptors. An absent key reads as undefined.

TRACK_SYMBOL == "Symbol(track)"
UNRESOLVED_TRACK_SYMBOL == "Symbol(unresolved)"

EmptyObject == [props |-> [k \in {} |-> 0], syms |-> [k \in {} |-> 0]]

Has(o, key) == key \in DOMAIN o.props

\* Object.defineProperty(o, sym, {configurable: true, value: true}):
\* enumerable defaults to false
TagDescriptor == [value |-> TRUE, enumerable |-> FALSE, configurable |-> TRUE]

defineProperty(o, sym, descriptor) ==
  [o EXCEPT !.syms = [s \in (DOMAIN o.syms) \cup {sym} |->
                        IF s = sym THEN descriptor ELSE o.syms[s]]]

isUnresolvedTrack(o) ==
  /\ UNRESOLVED_TRACK_SYMBOL \in DOMAIN o.syms
  /\ o.syms[UNRESOLVED_TRACK_SYMBOL].value = TRUE

isTrack(o) ==
  /\ TRACK_SYMBOL \in DOMAIN o.syms
  /\ o.syms[TRACK_SYMBOL].value = TRUE

\* TrackUtils.trackPartial, the whitelist: <<>> is null, <<list>> is the
\* array that was set
VARIABLE trackPartial

SeqIncludes(list, x) == \E i \in 1..Len(list) : list[i] = x

\* setTrackPartial without its line 48
setTrackPartialNoUnshift(partial) == partial

\* the value setTrackPartial stores for the array `partial` (a string array)
setTrackPartialValue(partial) ==
  IF ~SeqIncludes(partial, "track") THEN <<"track">> \o partial ELSE partial

UriIncludesYoutube(uri) == uri = "https://youtube.com/watch?v=id"

\* the object literal of build, before the whitelist is applied
TrackLiteral(data, requester) ==
  [track |-> data.track,
   title |-> data.info.title,
   identifier |-> data.info.identifier,
   author |-> data.info.author,
   duration |-> data.info.length,
   isSeekable |-> data.info.isSeekable,
   isStream |-> data.info.isStream,
   uri |-> data.info.uri,
   thumbnail |-> IF UriIncludesYoutube(data.info.uri)
                   THEN <<"https://img.youtube.com/vi/", data.info.identifier, "/default.jpg">>
                   ELSE <<"null">>,
   displayThumbnail |-> "function displayThumbnail",
   requester |-> requester]

\* lines 127-132: the keys that survive the whitelist `partial`
ProjectKeys(keys, partial) ==
  IF partial # <<>>
    THEN {key \in keys : SeqIncludes(partial[1], key)}
    ELSE keys

buildWith(data, requester, partial) ==
  LET track == TrackLiteral(data, requester)
      kept == ProjectKeys(DOMAIN track, partial)
  IN defineProperty([props |-> [key \in kept |-> track[key]],
                     syms |-> EmptyObject.syms],
                    TRACK_SYMBOL, TagDescriptor)

build(data, requester) == buildWith(data, requester, trackPartial)

\* query is a string (IsString) or an UnresolvedQuery object given by its
\* own enumerable properties
buildUnresolved(isString, query, requester) ==
  LET base == [requester |-> requester, resolve |-> "function resolve"]
      keys == IF isString THEN (DOMAIN base) \cup {"title"}
                          ELSE (DOMAIN base) \cup (DOMAIN query)
      unresolvedTrack ==
        [key \in keys |->
           IF isString
             THEN (IF key = "title" THEN query ELSE base[key])
             ELSE (IF key \in DOMAIN query THEN query[key] ELSE base[key])]
  IN defineProperty([props |-> unresolvedTrack, syms |-> EmptyObject.syms],
                    UNRESOLVED_TRACK_SYMBOL, TagDescriptor)

\* Object.getOwnPropertyNames(this).forEach(prop => delete this[prop]):
\* the string-keyed own properties go, the symbol-keyed ones stay
deleteOwnPropertyNames(o) == [o EXCEPT !.props = EmptyObject.props]

\* an Object.assign that copies every own property, enumerable or not
ObjectAssignAllOwn(target, source) ==
  IF source = <<>> THEN target
  ELSE
    LET src == source[1]
    IN [props |-> [key \in (DOMAIN target.props) \cup (DOMAIN src.props) |->
                     IF key \in DOMAIN src.props THEN src.props[key]
                     ELSE target.props[key]],
        syms |-> [s \in (DOMAIN target.syms) \cup (DOMAIN src.syms) |->
                     IF s \in DOMAIN src.syms THEN src.syms[s] ELSE target.syms[s]]]

\* Object.assign(target, source): the own enumerable properties of source,
\* string-keyed and symbol-keyed; source is <<>> (undefined) or <<object>>
ObjectAssign(target, source) ==
  IF source = <<>> THEN target
  ELSE
    LET src == source[1]
        enumSyms == {s \in DOMAIN src.syms : src.syms[s].enumerable}
    IN [props |-> [key \in (DOMAIN target.props) \cup (DOMAIN src.props) |->
                     IF key \in DOMAIN src.props THEN src.props[key]
                     ELSE target.props[key]],
        syms |-> [s \in (DOMAIN target.syms) \cup enumSyms |->
                     IF s \in enumSyms
                       THEN [value |-> src.syms[s].value, enumerable |-> TRUE,
                             configurable |-> TRUE]
                       ELSE target.syms[s]]]

\* lines 158-159 of resolve(), after the await
resolveFinish(this, resolved) == ObjectAssign(deleteOwnPropertyNames(this), resolved)

\* ------------------------------------------------------------------------
\* TrackUtils.getClosestTrack
\* ------------------------------------------------------------------------

\* !!value for the string and number properties of the model
TruthyStr(o, key) == Has(o, key) /\ o.props[key] # <<>>
TruthyNum(o, key) == Has(o, key) /\ o.props[key] # 0

\* String(value) of a string-valued property that may be absent
PropStr(o, key) == IF Has(o, key) THEN o.props[key] ELSE W_undefined

\* new RegExp(`^${escapeRegExp(name)}$`, "i").test(str)
TestExactIgnoreCase(name, str) == toLowerCase(name) = toLowerCase(str)

TopicSuffix == <<" ", "-", " ", "T", "o", "p", "i", "c">>

\* line 182
QueryOf(u) ==
  join((IF TruthyStr(u, "author") THEN <<u.props["author"]>> ELSE <<>>) \o
       (IF TruthyStr(u, "title") THEN <<u.props["title"]>> ELSE <<>>),
       <<" ", "-", " ">>)

\* the channel test without the "i" flag
ChannelMatchesCaseSensitive(u, track) ==
  \/ u.props["author"] = PropStr(track, "author")
  \/ u.props["author"] \o TopicSuffix = PropStr(track, "author")

ChannelMatches(u, track) ==
  \/ TestExactIgnoreCase(u.props["author"], PropStr(track, "author"))
  \/ TestExactIgnoreCase(u.props["author"] \o TopicSuffix, PropStr(track, "author"))

\* the predicate of the first find: "match", "no", or "throw" when
\* escapeRegExp is handed an undefined title (TypeError)
OriginalAudioTest(u, track) ==
  IF ChannelMatches(u, track) THEN "match"
  ELSE IF ~Has(u, "title") THEN "throw"
  ELSE IF TestExactIgnoreCase(u.props["title"], PropStr(track, "title")) THEN "match"
  ELSE "no"

\* Array.prototype.find over the first predicate, from index i on:
\* 0 when nothing is found, -1 when the predicate throws
RECURSIVE FindOriginalAudio(_, _, _)
FindOriginalAudio(u, tracks, i) ==
  IF i > Len(tracks) THEN 0
  ELSE LET t == OriginalAudioTest(u, tracks[i])
       IN IF t = "match" THEN i
          ELSE IF t = "throw" THEN -1
          ELSE FindOriginalAudio(u, tracks, i + 1)

DurationSlack == 1500

\* the duration test with > and < for >= and <=
SameDurationTestExclusive(u, track) ==
  /\ Has(track, "duration")
  /\ track.props["duration"] > u.props["duration"] - DurationSlack
  /\ track.props["duration"] < u.props["duration"] + DurationSlack

SameDurationTest(u, track) ==
  /\ Has(track, "duration")
  /\ track.props["duration"] >= u.props["duration"] - DurationSlack
  /\ track.props["duration"] <= u.props["duration"] + DurationSlack

RECURSIVE FindSameDuration(_, _, _)
FindSameDuration(u, tracks, i) ==
  IF i > Len(tracks) THEN 0
  ELSE IF SameDurationTest(u, tracks[i]) THEN i
  ELSE FindSameDuration(u, tracks, i + 1)

\* lines 190-212: the selection over res.tracks, read off the object u as it
\* is when the response arrives. [threw, value]: value is <<>> (undefined) or
\* <<track>>.
Returned(tracks, i) == [threw |-> FALSE, value |-> IF i = 0 THEN <<>> ELSE <<tracks[i]>>]

FallbackIndex(tracks) == IF Len(tracks) > 0 THEN 1 ELSE 0

SelectByDuration(u, tracks) ==
  LET sameDuration == IF TruthyNum(u, "duration") THEN FindSameDuration(u, tracks, 1) ELSE 0
  IN IF sameDuration # 0 THEN Returned(tracks, sameDuration)
     ELSE Returned(tracks, FallbackIndex(tracks))

SelectClosest(u, tracks) ==
  LET originalAudio == IF TruthyStr(u, "author") THEN FindOriginalAudio(u, tracks, 1) ELSE 0
  IN IF originalAudio = -1 THEN [threw |-> TRUE, value |-> <<>>]
     ELSE IF originalAudio # 0 THEN Returned(tracks, originalAudio)
     ELSE SelectByDuration(u, tracks)

\* ------------------------------------------------------------------------
\* State
\* ------------------------------------------------------------------------

VARIABLES
  manager,        \* TrackUtils.manager is set
  lastPartial,    \* the argument of the last setTrackPartial call: <<>> or <<list>>
  built,          \* the Tracks build has returned, each with the argument of the
                  \* setTrackPartial call in force when it was built
  objs,           \* the objects buildUnresolved has returned
  calls,          \* the resolve() calls made so far
  ready,          \* resolve() calls whose getClosestTrack has returned, in the
                  \* order their continuations are queued
  structures,     \* the registry of Structure
  extended,       \* per role, the transforms passed to extend, in call order
  lastCall,       \* the last Structure.extend / Structure.get call and its outcome
  cPc, cTrack, cTracks, cResult,     \* one getClosestTrack selection
  tPc, tMs, tMinimal, tTime, tParsed \* one formatTime / parseTime evaluation

trackVars == <<trackPartial, manager, lastPartial, built, objs, calls, ready>>
structVars == <<structures, extended, lastCall>>
closestVars == <<cPc, cTrack, cTracks, cResult>>
timeVars == <<tPc, tMs, tMinimal, tTime, tParsed>>
vars == <<trackVars, structVars, closestVars, timeVars>>

\* ------------------------------------------------------------------------
\* Inputs
\* ------------------------------------------------------------------------

MaxBuilt == 2
MaxUnresolved == 1
MaxCalls == 2
MaxTracks == 1
MaxCandidates == 2

Str_Song  == <<"S", "o", "n", "g">>
Str_song  == <<"s", "o", "n", "g">>
Str_other == <<"o", "t", "h", "e", "r">>
Str_X     == <<"X">>
Str_x     == <<"x">>
Str_y     == <<"y">>
Str_xTopic == <<"x", " ", "-", " ", "t", "o", "p", "i", "c">>

Requester == "requester"

TrackDataOf(author, title, length, uri) ==
  [track |-> <<"payload", author, title, length>>,
   info |-> [title |-> title, identifier |-> "id", author |-> author,
             length |-> length, isSeekable |-> TRUE, isStream |-> FALSE,
             uri |-> uri]]

\* raw track data the search provider hands to build
ResolveData ==
  {TrackDataOf(Str_X, Str_song, 100000, "https://youtube.com/watch?v=id"),
   TrackDataOf(Str_y, Str_other, 200000, "https://soundcloud.com/id")}

\* arguments of setTrackPartial
PartialArgs ==
  {<<"track", "title">>, <<"title">>, <<"author", "bogus">>,
   <<"displayThumbnail", "duration", "requester">>}

\* those of them used where resolve() is exercised
ResolvePartialArgs == {<<"author", "bogus">>}

StringQuery(title) == [isString |-> TRUE, str |-> title, obj |-> [k \in {} |-> 0]]
ObjectQuery(query) == [isString |-> FALSE, str |-> <<>>, obj |-> query]

ResolveQueries ==
  {StringQuery(Str_Song),
   ObjectQuery([title |-> Str_Song, author |-> Str_x, duration |-> 100000])}

BuildQuery(q) ==
  buildUnresolved(q.isString, IF q.isString THEN q.str ELSE q.obj, Requester)

BoundedSeq(S, n) == UNION {[1..k -> S] : k \in 0..n}

LoadTypes == {"TRACK_LOADED", "PLAYLIST_LOADED", "SEARCH_RESULT", "LOAD_FAILED", "NO_MATCHES"}

\* a provider response: loadType, whether it carries an exception, and the raw
\* data of its tracks
Responses ==
  {[loadType |-> "SEARCH_RESULT", exception |-> FALSE, data |-> d] :
     d \in BoundedSeq(ResolveData, MaxTracks)}
  \cup
  {[loadType |-> lt, exception |-> e, data |-> <<>>] :
     lt \in LoadTypes \ {"SEARCH_RESULT"}, e \in BOOLEAN}

\* ------------------------------------------------------------------------
\* TrackUtils: operations
\* ------------------------------------------------------------------------

TrackInit ==
  /\ trackPartial = <<>>
  /\ manager = FALSE
  /\ lastPartial = <<>>
  /\ built = <<>>
  /\ objs = <<>>
  /\ calls = <<>>
  /\ ready = <<>>

\* TrackUtils.init(manager)
TrackUtilsInit ==
  /\ ~manager
  /\ manager' = TRUE
  /\ UNCHANGED <<trackPartial, lastPartial, built, objs, calls, ready>>

\* TrackUtils.setTrackPartial(partial) with a string array
SetTrackPartial(partial) ==
  /\ trackPartial' = <<setTrackPartialValue(partial)>>
  /\ lastPartial' = <<partial>>
  /\ UNCHANGED <<manager, built, objs, calls, ready>>

\* TrackUtils.build(data, requester)
Build(data) ==
  /\ Len(built) < MaxBuilt
  /\ built' = Append(built, [track |-> build(data, Requester), under |-> lastPartial])
  /\ UNCHANGED <<trackPartial, manager, lastPartial, objs, calls, ready>>

\* TrackUtils.buildUnresolved(query, requester)
BuildUnresolved(q) ==
  /\ Len(objs) < MaxUnresolved
  /\ objs' = Append(objs, BuildQuery(q))
  /\ UNCHANGED <<trackPartial, manager, lastPartial, built, calls, ready>>

NewCall(o) ==
  [obj |-> o, pc |-> "search", query |-> <<>>, answer |-> "", nonEmpty |-> FALSE,
   resolved |-> <<>>, error |-> "", later |-> {}]

\* o.resolve() up to the await of manager.search: the checks and the query of
\* getClosestTrack. The call needs the object to still own its resolve method.
StartResolve(o) ==
  /\ o \in 1..Len(objs)
  /\ Has(objs[o], "resolve")
  /\ Len(calls) < MaxCalls
  /\ calls' = Append(calls,
       IF ~manager
         THEN [NewCall(o) EXCEPT !.pc = "threw",
                 !.error = "RangeError: Manager has not been initiated."]
       ELSE IF ~isUnresolvedTrack(objs[o])
         THEN [NewCall(o) EXCEPT !.pc = "threw",
                 !.error = "RangeError: Provided track is not a UnresolvedTrack."]
       ELSE [NewCall(o) EXCEPT !.query = QueryOf(objs[o])])
  /\ UNCHANGED <<trackPartial, manager, lastPartial, built, objs, ready>>

\* the provider's tracks: Manager.search builds each with TrackUtils.build
ResponseTracks(res) == [i \in 1..Len(res.data) |-> build(res.data[i], Requester)]

\* the response of manager.search arrives for call c: lines 185-212 run, on
\* the object as it is now. `answer` records whether the response was a
\* SEARCH_RESULT, `nonEmpty` whether it had tracks, `later` the calls on the same object that were started and
\* are still waiting for their response.
Respond(c, res) ==
  /\ c \in 1..Len(calls)
  /\ calls[c].pc = "search"
  /\ LET u == objs[calls[c].obj]
         got == [calls[c] EXCEPT !.answer = IF res.loadType = "SEARCH_RESULT"
                                              THEN "SEARCH_RESULT" ELSE "failure",
                                 !.nonEmpty = (Len(res.data) > 0),
                                 !.later = {c2 \in 1..Len(calls) :
                                              /\ c2 # c
                                              /\ calls[c2].obj = calls[c].obj
                                              /\ calls[c2].pc = "search"}]
         picked == SelectClosest(u, ResponseTracks(res))
     IN IF res.loadType # "SEARCH_RESULT"
          THEN /\ calls' = [calls EXCEPT ![c] =
                    [got EXCEPT !.pc = "threw",
                       !.error = IF res.exception THEN "res.exception"
                                 ELSE "No tracks found."]]
               /\ ready' = ready
        ELSE IF picked.threw
          THEN /\ calls' = [calls EXCEPT ![c] =
                    [got EXCEPT !.pc = "threw", !.error = "TypeError"]]
               /\ ready' = ready
        ELSE /\ calls' = [calls EXCEPT ![c] =
                    [got EXCEPT !.pc = "selected", !.resolved = picked.value]]
             /\ ready' = Append(ready, c)
  /\ UNCHANGED <<trackPartial, manager, lastPartial, built, objs>>

\* the continuation of resolve() after its await: lines 158-159
FinishResolve ==
  /\ ready # <<>>
  /\ LET c == Head(ready)
         o == calls[c].obj
     IN /\ objs' = [objs EXCEPT ![o] = resolveFinish(objs[o], calls[c].resolved)]
        /\ calls' = [calls EXCEPT ![c].pc = "done"]
  /\ ready' = Tail(ready)
  /\ UNCHANGED <<trackPartial, manager, lastPartial, built>>

\* ------------------------------------------------------------------------
\* getClosestTrack as a function of the unresolved track and res.tracks
\* ------------------------------------------------------------------------

ClosestQueries ==
  {ObjectQuery(q) : q \in
     {[title |-> Str_Song],
      [title |-> Str_Song, author |-> <<>>],
      [title |-> Str_Song, author |-> Str_x],
      [title |-> Str_Song, duration |-> 0],
      [title |-> Str_Song, duration |-> 100000],
      [title |-> Str_Song, author |-> <<>>, duration |-> 0],
      [title |-> Str_Song, author |-> <<>>, duration |-> 100000],
      [title |-> Str_Song, author |-> Str_x, duration |-> 0],
      [title |-> Str_Song, author |-> Str_x, duration |-> 100000]}}

ClosestData ==
  {TrackDataOf(author, title, 200000, "https://youtube.com/watch?v=id") :
     author \in {Str_X, Str_xTopic, Str_y}, title \in {Str_song, Str_other}}
  \cup
  {TrackDataOf(Str_y, Str_other, length, "https://soundcloud.com/id") :
     length \in {0, 98499, 98500, 101500, 101501}}
  \cup
  {TrackDataOf(<<>>, Str_other, 200000, "https://soundcloud.com/id")}

ClosestInit ==
  /\ cPc = "input"
  /\ cTrack \in {BuildQuery(q) : q \in ClosestQueries}
  /\ cTracks \in BoundedSeq({buildWith(d, Requester, <<>>) : d \in ClosestData}, MaxCandidates)
  /\ cResult = [threw |-> FALSE, value |-> <<>>]

\* lines 190-212 on a SEARCH_RESULT response whose tracks are cTracks
GetClosestTrack ==
  /\ cPc = "input"
  /\ cPc' = "returned"
  /\ cResult' = SelectClosest(cTrack, cTracks)
  /\ UNCHANGED <<cTrack, cTracks>>

\* ------------------------------------------------------------------------
\* Structure
\* ------------------------------------------------------------------------

\* A class is a non-empty sequence: its built-in name, then the subclassing
\* transforms it went through. <<>> is undefined.

Roles == {"Player", "Queue", "Node"}
Names == Roles \cup {"NotARole"}

Transforms == {"subclassA", "subclassB", "identity", "replace", "returnsUndefined"}

\* extender(target)
ApplyTransform(fn, target) ==
  CASE fn = "subclassA" -> Append(target, "A")
    [] fn = "subclassB" -> Append(target, "B")
    [] fn = "identity" -> target
    [] fn = "replace" -> <<"Custom">>
    [] fn = "returnsUndefined" -> <<>>

MaxExtends == 2

\* lines 399-403
InitialStructures == [name \in Roles |-> <<name>>]

\* structures[name]
Lookup(name) == IF name \in Roles THEN structures[name] ELSE <<>>

StructInit ==
  /\ structures = InitialStructures
  /\ extended = [name \in Names |-> <<>>]
  /\ lastCall = [op |-> "none", name |-> "", threw |-> FALSE, value |-> <<>>]

TotalExtends == Len(extended["Player"]) + Len(extended["Queue"])
                  + Len(extended["Node"]) + Len(extended["NotARole"])

\* an extend that returns the extended class without storing it
ExtendBindingNotStored(name, fn) == structures[name]

\* the binding extend leaves for `name` when it does not throw
ExtendBinding(name, fn) == ApplyTransform(fn, structures[name])

\* Structure.extend(name, extender)
Extend(name, fn) ==
  /\ TotalExtends < MaxExtends
  /\ extended' = [extended EXCEPT ![name] = Append(@, fn)]
  /\ IF Lookup(name) = <<>>
       THEN /\ lastCall' = [op |-> "extend", name |-> name, threw |-> TRUE, value |-> <<>>]
            /\ structures' = structures
       ELSE /\ structures' = [structures EXCEPT ![name] = ExtendBinding(name, fn)]
            /\ lastCall' = [op |-> "extend", name |-> name, threw |-> FALSE,
                            value |-> ApplyTransform(fn, structures[name])]

\* Structure.get(name)
Get(name) ==
  /\ lastCall' = [op |-> "get", name |-> name, threw |-> (Lookup(name) = <<>>),
                  value |-> Lookup(name)]
  /\ UNCHANGED <<structures, extended>>

\* ------------------------------------------------------------------------
\* formatTime and parseTime on one input
\* ------------------------------------------------------------------------

MaxCount == 2
MaxDays == 8

TimeInputs ==
  {Ms(a + MinuteSec * b + HourSec * c + DaySec * d, r) :
     a \in 0..MaxCount, b \in 0..MaxCount, c \in 0..MaxCount, d \in 0..MaxDays,
     r \in {0, 500}}
  \cup {Ms(MonthSec, 0), Ms(YearSec, 0), Ms(YearSec + MonthSec + WeekSec + DaySec + 59, 499)}

TimeInit ==
  /\ tPc = "input"
  /\ tMs \in TimeInputs
  /\ tMinimal \in BOOLEAN
  /\ tTime = <<>>
  /\ tParsed = <<>>

\* Utils.formatTime(tMs, tMinimal)
FormatTime ==
  /\ tPc = "input"
  /\ tPc' = "formatted"
  /\ tTime' = formatTime(tMs, tMinimal)
  /\ UNCHANGED <<tMs, tMinimal, tParsed>>

\* Utils.parseTime(tTime)
ParseTime ==
  /\ tPc = "formatted"
  /\ tPc' = "parsed"
  /\ tParsed' = parseTime(tTime)
  /\ UNCHANGED <<tMs, tMinimal, tTime>>

\* ------------------------------------------------------------------------
\* Specifications
\* ------------------------------------------------------------------------

ClosestIdle ==
  /\ cPc = "idle"
  /\ cTrack = EmptyObject
  /\ cTracks = <<>>
  /\ cResult = [threw |-> FALSE, value |-> <<>>]

TimeIdle ==
  /\ tPc = "idle"
  /\ tMs = Ms(0, 0)
  /\ tMinimal = FALSE
  /\ tTime = <<>>
  /\ tParsed = <<>>

\* resolve() on unresolved tracks, with the whitelist and the manager
ResolveInit == TrackInit /\ StructInit /\ ClosestIdle /\ TimeIdle

ResolveNext ==
  \/ (TrackUtilsInit /\ UNCHANGED <<structVars, closestVars, timeVars>>)
  \/ \E partial \in ResolvePartialArgs :
       SetTrackPartial(partial) /\ UNCHANGED <<structVars, closestVars, timeVars>>
  \/ \E q \in ResolveQueries :
       BuildUnresolved(q) /\ UNCHANGED <<structVars, closestVars, timeVars>>
  \/ \E o \in 1..Len(objs) :
       StartResolve(o) /\ UNCHANGED <<structVars, closestVars, timeVars>>
  \/ \E c \in 1..Len(calls), res \in Responses :
       Respond(c, res) /\ UNCHANGED <<structVars, closestVars, timeVars>>
  \/ (FinishResolve /\ UNCHANGED <<structVars, closestVars, timeVars>>)

SpecResolve == ResolveInit /\ [][ResolveNext]_vars

\* build under the whitelist
BuildData ==
  {TrackDataOf(Str_X, Str_song, 100000, "https://youtube.com/watch?v=id"),
   TrackDataOf(Str_y, Str_other, 0, "https://soundcloud.com/id")}

BuildNext ==
  \/ \E partial \in PartialArgs :
       SetTrackPartial(partial) /\ UNCHANGED <<structVars, closestVars, timeVars>>
  \/ \E data \in BuildData :
       Build(data) /\ UNCHANGED <<structVars, closestVars, timeVars>>

SpecBuild == ResolveInit /\ [][BuildNext]_vars

\* the selection of getClosestTrack
ClosestSpecInit == TrackInit /\ StructInit /\ ClosestInit /\ TimeIdle

ClosestNext == GetClosestTrack /\ UNCHANGED <<trackVars, structVars, timeVars>>

SpecClosest == ClosestSpecInit /\ [][ClosestNext]_vars

\* the Structure registry
StructNext ==
  \/ \E name \in Names, fn \in Transforms :
       Extend(name, fn) /\ UNCHANGED <<trackVars, closestVars, timeVars>>
  \/ \E name \in Names :
       Get(name) /\ UNCHANGED <<trackVars, closestVars, timeVars>>

SpecStruct == ResolveInit /\ [][StructNext]_vars

\* formatTime followed by parseTime
TimeSpecInit == TrackInit /\ StructInit /\ ClosestIdle /\ TimeInit

TimeNext ==
  \/ (FormatTime /\ UNCHANGED <<trackVars, structVars, closestVars>>)
  \/ (ParseTime /\ UNCHANGED <<trackVars, structVars, closestVars>>)

SpecTime == TimeSpecInit /\ [][TimeNext]_vars

\* ------------------------------------------------------------------------
\* Properties
\* ------------------------------------------------------------------------

CallsOn(o) == {c \in 1..Len(calls) : calls[c].obj = o}

Succeeded(c) == calls[c].pc = "done" /\ calls[c].resolved # <<>>

\* C1: after resolve() completes successfully on an object of buildUnresolved,
\* the object passes isTrack and fails isUnresolvedTrack.
C1_TagFlips ==
  \A c \in 1..Len(calls) :
    Succeeded(c) =>
      /\ isTrack(objs[calls[c].obj])
      /\ ~isUnresolvedTrack(objs[calls[c].obj])

\* C2: a resolve() call that received a provider response either returned
\* normally, and the object then holds every field of a track selected from
\* the candidates, or threw, and the object's own fields have been cleared.
\* (Stated for an object with one resolve() call, so that no other call
\* touches the object.)
C2_RepopulatedOrClearedAndThrown ==
  \A c \in 1..Len(calls) :
    (CallsOn(calls[c].obj) = {c} /\ calls[c].answer # "") =>
      /\ calls[c].pc = "done" =>
           /\ calls[c].resolved # <<>>
           /\ objs[calls[c].obj].props = calls[c].resolved[1].props
      /\ calls[c].pc = "threw" => DOMAIN objs[calls[c].obj].props = {}

\* --- C3, C4: the selection rules ---

AuthorRule(u, track) ==
  \/ toLowerCase(PropStr(track, "author")) = toLowerCase(u.props["author"])
  \/ toLowerCase(PropStr(track, "author")) = toLowerCase(u.props["author"] \o TopicSuffix)

TitleRule(u, track) ==
  toLowerCase(PropStr(track, "title")) = toLowerCase(u.props["title"])

DurationRule(u, track) ==
  \E delta \in (0 - DurationSlack)..DurationSlack :
    track.props["duration"] = u.props["duration"] + delta

\* index of the first element of tracks that is in the set of indices S, 0 if none
FirstOf(S) == IF S = {} THEN 0 ELSE CHOOSE i \in S : \A j \in S : i <= j

Rule1(u, tracks) ==
  FirstOf({i \in 1..Len(tracks) : AuthorRule(u, tracks[i]) \/ TitleRule(u, tracks[i])})

Rule2(u, tracks) ==
  FirstOf({i \in 1..Len(tracks) : DurationRule(u, tracks[i])})

RuleChoice(u, tracks, authorGiven, durationGiven) ==
  LET i1 == IF authorGiven THEN Rule1(u, tracks) ELSE 0
      i2 == IF durationGiven THEN Rule2(u, tracks) ELSE 0
      i == IF i1 # 0 THEN i1 ELSE IF i2 # 0 THEN i2 ELSE IF Len(tracks) > 0 THEN 1 ELSE 0
  IN IF i = 0 THEN <<>> ELSE <<tracks[i]>>

\* C3 as stated: the rules apply whenever the unresolved track has an author,
\* respectively a duration.
C3_SelectionWhenGiven ==
  cPc = "returned" =>
    /\ ~cResult.threw
    /\ cResult.value = RuleChoice(cTrack, cTracks, Has(cTrack, "author"), Has(cTrack, "duration"))

\* C3 amended: getClosestTrack returns the candidate chosen by the rules in
\* order, first match wins, ties by list order, where an author counts as
\* given when it is a non-empty string and a duration when it is not 0.
C3_SelectionWhenTruthy ==
  cPc = "returned" =>
    /\ ~cResult.threw
    /\ cResult.value = RuleChoice(cTrack, cTracks,
                                  Has(cTrack, "author") /\ cTrack.props["author"] # <<>>,
                                  Has(cTrack, "duration") /\ cTrack.props["duration"] # 0)

\* rule 2 picks a candidate that is not the first, at the inclusive boundary
C3_Witness ==
  /\ cPc = "returned"
  /\ Has(cTrack, "author") /\ cTrack.props["author"] # <<>>
  /\ Has(cTrack, "duration")
  /\ Len(cTracks) = 2
  /\ Rule1(cTrack, cTracks) = 0
  /\ cTracks[1].props["duration"] = 101501
  /\ cTracks[2].props["duration"] = 98500
  /\ cResult.value = <<cTracks[2]>>

AuthorMatchers(u, tracks) == {i \in 1..Len(tracks) : AuthorRule(u, tracks[i])}

\* C4 as stated: with an author given, if some candidate's author matches,
\* the first candidate whose author matches is returned.
C4_AuthorMatchWins ==
  (cPc = "returned" /\ Has(cTrack, "author") /\ AuthorMatchers(cTrack, cTracks) # {}) =>
    cResult.value = <<cTracks[FirstOf(AuthorMatchers(cTrack, cTracks))]>>

\* C4 amended: with a non-empty author given, if some candidate's author
\* matches, the first candidate whose author matches is returned, unless a
\* candidate before it has a title that case-insensitively equals the
\* unresolved title: then the first such candidate is returned.
C4_AuthorMatchWinsUnlessTitleFirst ==
  (/\ cPc = "returned"
   /\ Has(cTrack, "author") /\ cTrack.props["author"] # <<>>
   /\ AuthorMatchers(cTrack, cTracks) # {}) =>
    LET a == FirstOf(AuthorMatchers(cTrack, cTracks))
        titled == {i \in 1..(a - 1) : TitleRule(cTrack, cTracks[i])}
    IN cResult.value = <<cTracks[IF titled = {} THEN a ELSE FirstOf(titled)]>>

\* the author match stands second, after a candidate that matches nothing
C4_Witness ==
  /\ cPc = "returned"
  /\ Has(cTrack, "author") /\ cTrack.props["author"] # <<>>
  /\ Len(cTracks) = 2
  /\ FirstOf(AuthorMatchers(cTrack, cTracks)) = 2
  /\ ~TitleRule(cTrack, cTracks[1])
  /\ cResult.value = <<cTracks[2]>>

\* --- C5 ---

TagsOf(o) == DOMAIN o.syms

\* C5: every object build or buildUnresolved returned carries exactly one of
\* the two capability tags, in every reachable state: the objects of
\* buildUnresolved the unresolved tag only, the tracks of build the resolved
\* tag only.
C5_ExactlyOneTag ==
  /\ \A o \in 1..Len(objs) :
       /\ TagsOf(objs[o]) = {UNRESOLVED_TRACK_SYMBOL}
       /\ isUnresolvedTrack(objs[o]) /\ ~isTrack(objs[o])
  /\ \A c \in 1..Len(calls) :
       calls[c].resolved # <<>> =>
         /\ TagsOf(calls[c].resolved[1]) = {TRACK_SYMBOL}
         /\ isTrack(calls[c].resolved[1]) /\ ~isUnresolvedTrack(calls[c].resolved[1])
  /\ \A i \in 1..Len(built) :
       /\ TagsOf(built[i].track) = {TRACK_SYMBOL}
       /\ isTrack(built[i].track) /\ ~isUnresolvedTrack(built[i].track)

\* a resolve() has succeeded and another one has failed
C5_Witness ==
  \E c1, c2 \in 1..Len(calls) :
    /\ Succeeded(c1)
    /\ calls[c2].pc = "threw"
    /\ Has(objs[calls[c1].obj], "track")

\* --- C6 ---

TrackFields ==
  {"track", "title", "identifier", "author", "duration", "isSeekable",
   "isStream", "uri", "thumbnail", "displayThumbnail", "requester"}

Members(list) == {list[i] : i \in 1..Len(list)}

\* C6: a Track built after setTrackPartial(L) has as data keys exactly the
\* members of L that are Track fields, and "track", plus its hidden resolved
\* tag; a Track built earlier keeps the keys it had, whatever calls follow.
C6_WhitelistKeys ==
  \A i \in 1..Len(built) :
    /\ built[i].under # <<>> =>
         DOMAIN built[i].track.props =
           (Members(built[i].under[1]) \cup {"track"}) \cap TrackFields
    /\ built[i].under = <<>> => DOMAIN built[i].track.props = TrackFields
    /\ isTrack(built[i].track)

\* a Track with all its keys, then setTrackPartial(["title"]), then a Track
\* with the keys track and title
C6_Witness ==
  /\ Len(built) = 2
  /\ built[1].under = <<>>
  /\ DOMAIN built[1].track.props = TrackFields
  /\ built[2].under = <<<<"title">>>>
  /\ DOMAIN built[2].track.props = {"track", "title"}

\* --- C7 ---

RECURSIVE Compose(_, _)
Compose(fns, initial) ==
  IF fns = <<>> THEN initial
  ELSE ApplyTransform(fns[Len(fns)], Compose(SubSeq(fns, 1, Len(fns) - 1), initial))

\* C7 as stated: every extend and every get on a role succeeds, and returns
\* the transforms passed to extend so far applied in order to the built-in.
C7_ExtendThenGet ==
  (lastCall.op \in {"extend", "get"} /\ lastCall.name \in Roles) =>
    /\ ~lastCall.threw
    /\ lastCall.value = Compose(extended[lastCall.name], <<lastCall.name>>)

ReturnsClass(fn) == \A target \in {<<"Player">>, <<"Custom">>} : ApplyTransform(fn, target) # <<>>

\* C7 amended: the same, for transforms that return a class (a truthy value).
C7_ExtendThenGetOfClasses ==
  (/\ lastCall.op \in {"extend", "get"}
   /\ lastCall.name \in Roles
   /\ \A i \in 1..Len(extended[lastCall.name]) : ReturnsClass(extended[lastCall.name][i])) =>
    /\ ~lastCall.threw
    /\ lastCall.value = Compose(extended[lastCall.name], <<lastCall.name>>)

\* get after two extends that compose
C7_Witness ==
  /\ lastCall.op = "get"
  /\ lastCall.name = "Player"
  /\ extended["Player"] = <<"subclassA", "subclassB">>
  /\ lastCall.value = <<"Player", "A", "B">>

\* --- C8, C9 ---

\* C8: parseTime(formatTime(ms, false)) = ms for every ms > 0 that is a sum of
\* whole seconds, minutes, hours and days.
C8_RoundTrip ==
  (tPc = "parsed" /\ ~tMinimal /\ tMs.r = 0 /\ tMs.s > 0) =>
    tParsed = <<tMs>>

\* the times of the decomposition with the weeks counted as days
SixColumns(times) ==
  << <<Plural(W_year), times.years>>,
     <<Plural(W_month), times.months>>,
     <<Plural(W_day), times.days + times.weeks>>,
     <<Plural(W_hour), times.hours>>,
     <<Plural(W_minute), times.minutes>>,
     <<Plural(W_second), times.seconds>> >>

\* C9: each whole week adds 7 to the day count and is no unit or column of its
\* own: the output is the rendering of years, months, days, hours, minutes,
\* seconds, and the non-minimal output names no week.
C9_WeeksAreDays ==
  (tPc = "formatted" /\ (tMs.s > 0 \/ tMs.r > 0)) =>
    /\ tTime = JoinTime(Render(SixColumns(Decompose(tMs, Times0)), 1, tMinimal, FALSE), tMinimal)
    /\ ~tMinimal => ~includes(tTime, W_week)

\* --- C10 ---

\* C10: two resolve() calls started on one object before either response
\* arrived, both answered by SEARCH_RESULT with a non-empty list: neither
\* throws, and once both are done the object holds the track selected by the
\* call whose response arrived last.
C10_BothCompleteLastWins ==
  \A c1, c2 \in 1..Len(calls) :
    (/\ c2 \in calls[c1].later
     /\ CallsOn(calls[c1].obj) = {c1, c2}
     /\ calls[c1].answer = "SEARCH_RESULT" /\ calls[c1].nonEmpty
     /\ calls[c2].answer = "SEARCH_RESULT" /\ calls[c2].nonEmpty) =>
      /\ calls[c1].pc # "threw"
      /\ calls[c2].pc # "threw"
      /\ (calls[c1].pc = "done" /\ calls[c2].pc = "done") =>
           objs[calls[c1].obj].props = calls[c2].resolved[1].props

====
